---- MODULE Spec2Model ----
(***************************************************************************)
(* Puzzle search engine of puzzles-BFS-DFS: depth_first_solve and          *)
(* breadth_first_solve of puzzle_tools.py, run over the three puzzle       *)
(* variants (MNPuzzle, GridPegSolitairePuzzle, WordLadderPuzzle) and over  *)
(* an arbitrary implementer of the Puzzle contract.                        *)
(*                                                                         *)
(* A puzzle is a record tagged by its class (field kind).  Grids are       *)
(* sequences of rows, rows are sequences of one-character strings, words   *)
(* are sequences of one-character strings.  Indices are 1-based here and   *)
(* 0-based in the source.                                                  *)
(***************************************************************************)
EXTENDS Integers, Sequences, FiniteSets, TLC

(***************************************************************************)
(* Bounds of the model                                                     *)
(***************************************************************************)
\* grids of the enumerated MNPuzzle / GridPegSolitairePuzzle inputs have
\* at most this many cells
MaxCells == 4
\* words of the enumerated WordLadderPuzzle inputs have at most this many letters
MaxWordLen == 2
\* word sets of the enumerated WordLadderPuzzle inputs have at most this many words
MaxWords == 3
\* number of configurations of the enumerated contract puzzles
NumConfigs == 3

None == 0

(***************************************************************************)
(* Generic helpers                                                         *)
(***************************************************************************)
RECURSIVE Concat(_)
\* "".join(s) for a sequence of strings
Concat(s) == IF s = <<>> THEN "" ELSE Head(s) \o Concat(Tail(s))

RECURSIVE Join(_, _)
\* sep.join(s)
Join(sep, s) ==
    IF s = <<>> THEN ""
    ELSE IF Len(s) = 1 THEN s[1]
    ELSE s[1] \o sep \o Join(sep, Tail(s))

\* concatenation of the sequences ss[1], ..., ss[Len(ss)]
FlattenSeq(ss) ==
    LET flat[k \in 0..Len(ss)] == IF k = 0 THEN <<>> ELSE flat[k - 1] \o ss[k]
    IN  flat[Len(ss)]

\* concatenation of a sequence of sequences; ss is evaluated once
Flatten(ss) == CHOOSE r \in {FlattenSeq(v) : v \in {ss}} : TRUE

Range(s) == {s[i] : i \in 1..Len(s)}

\* the rows of a grid and its cells in row-major order
GridRows(g) == Len(g)
GridCols(g) == Len(g[1])
CellSeq(g) == [k \in 1..(GridRows(g) * GridCols(g)) |->
                 <<((k - 1) \div GridCols(g)) + 1, ((k - 1) % GridCols(g)) + 1>>]

RECURSIVE GridStrFrom(_, _)
\* result = ""; for i in range(len(grid)): result += " ".join(grid[i]) + "\n"
GridStrFrom(g, i) ==
    IF i > Len(g) THEN ""
    ELSE Join(" ", g[i]) \o "\n" \o GridStrFrom(g, i + 1)

(***************************************************************************)
(* MNPuzzle (mn_puzzle.py)                                                 *)
(***************************************************************************)
MNPuzzle(from_grid, to_grid) ==
    [kind |-> "MN", from_grid |-> from_grid, to_grid |-> to_grid]

MN_str(p) == GridStrFrom(p.from_grid, 1)

MN_is_solved(p) == p.from_grid = p.to_grid

\* the slide with its second assignment left out
MN_slide_keeps_tile(grid, y, x, y2, x2) ==
    [grid EXCEPT ![y][x] = grid[y2][x2]]

\* the slide that moves the tile at (y2, x2) onto the blank at (y, x):
\* new_grid[y][x] = new_grid[y2][x2]; new_grid[y2][x2] = "*"
MN_slide(grid, y, x, y2, x2) ==
    [grid EXCEPT ![y][x] = grid[y2][x2], ![y2][x2] = "*"]

\* the four moves tried in the order down, up, right, left
MN_cell_extensions_rows_first(p, y, x) ==
    LET grid == p.from_grid
        l == GridRows(grid)
        w == GridCols(grid)
    IN  IF grid[y][x] = "*"
        THEN (IF y + 1 <= l
                THEN <<MNPuzzle(MN_slide(grid, y, x, y + 1, x), p.to_grid)>>
                ELSE <<>>)
             \o (IF y - 1 >= 1
                   THEN <<MNPuzzle(MN_slide(grid, y, x, y - 1, x), p.to_grid)>>
                   ELSE <<>>)
             \o (IF x + 1 <= w
                   THEN <<MNPuzzle(MN_slide(grid, y, x, y, x + 1), p.to_grid)>>
                   ELSE <<>>)
             \o (IF x - 1 >= 1
                   THEN <<MNPuzzle(MN_slide(grid, y, x, y, x - 1), p.to_grid)>>
                   ELSE <<>>)
        ELSE <<>>

\* the extensions appended while the scan is at cell (y, x)
MN_cell_extensions(p, y, x) ==
    LET grid == p.from_grid
        l == GridRows(grid)
        w == GridCols(grid)
    IN  IF grid[y][x] = "*"
        THEN (IF x + 1 <= w
                THEN <<MNPuzzle(MN_slide(grid, y, x, y, x + 1), p.to_grid)>>
                ELSE <<>>)
             \o (IF x - 1 >= 1
                   THEN <<MNPuzzle(MN_slide(grid, y, x, y, x - 1), p.to_grid)>>
                   ELSE <<>>)
             \o (IF y + 1 <= l
                   THEN <<MNPuzzle(MN_slide(grid, y, x, y + 1, x), p.to_grid)>>
                   ELSE <<>>)
             \o (IF y - 1 >= 1
                   THEN <<MNPuzzle(MN_slide(grid, y, x, y - 1, x), p.to_grid)>>
                   ELSE <<>>)
        ELSE <<>>

MN_extensions(p) ==
    LET cells == CellSeq(p.from_grid)
    IN  Flatten([k \in 1..Len(cells) |->
                   MN_cell_extensions(p, cells[k][1], cells[k][2])])

(***************************************************************************)
(* GridPegSolitairePuzzle (grid_peg_solitaire_puzzle.py)                   *)
(***************************************************************************)
GridPegSolitairePuzzle(marker, marker_set) ==
    [kind |-> "GPS", marker |-> marker, marker_set |-> marker_set]

GPS_str(p) == GridStrFrom(p.marker, 1)

\* count of "*" in the grid
GPS_count(marker) ==
    Cardinality({c \in Range(CellSeq(marker)) : marker[c[1]][c[2]] = "*"})

\* solved as soon as two pegs or fewer are left
GPS_is_solved_two_left(p) == GPS_count(p.marker) <= 2

GPS_is_solved(p) == GPS_count(p.marker) = 1

\* the jump that leaves the peg jumped over in its place
GPS_jump_keeps_middle(grid, y, x, y1, x1, y2, x2) ==
    [grid EXCEPT ![y][x] = "*", ![y2][x2] = "."]

\* the jump that lands on the empty cell (y, x) from (y2, x2) over (y1, x1)
GPS_jump(grid, y, x, y1, x1, y2, x2) ==
    [grid EXCEPT ![y][x] = "*", ![y1][x1] = ".", ![y2][x2] = "."]

\* the jump is made when the near cell alone holds a peg
GPS_cell_extensions_one_peg(p, y, x) ==
    LET grid_ == p.marker
        l == GridRows(grid_)
        w == GridCols(grid_)
        Ext(y1, x1, y2, x2) ==
            IF grid_[y1][x1] = "*"
            THEN <<GridPegSolitairePuzzle(
                      GPS_jump(grid_, y, x, y1, x1, y2, x2), p.marker_set)>>
            ELSE <<>>
    IN  IF grid_[y][x] = "."
        THEN (IF x + 2 <= w THEN Ext(y, x + 1, y, x + 2) ELSE <<>>)
             \o (IF x - 2 >= 1 THEN Ext(y, x - 1, y, x - 2) ELSE <<>>)
             \o (IF y + 2 <= l THEN Ext(y + 1, x, y + 2, x) ELSE <<>>)
             \o (IF y - 2 >= 1 THEN Ext(y - 1, x, y - 2, x) ELSE <<>>)
        ELSE <<>>

GPS_cell_extensions(p, y, x) ==
    LET grid_ == p.marker
        l == GridRows(grid_)
        w == GridCols(grid_)
        Ext(y1, x1, y2, x2) ==
            IF grid_[y1][x1] = "*" /\ grid_[y2][x2] = "*"
            THEN <<GridPegSolitairePuzzle(
                      GPS_jump(grid_, y, x, y1, x1, y2, x2), p.marker_set)>>
            ELSE <<>>
    IN  IF grid_[y][x] = "."
        THEN (IF x + 2 <= w THEN Ext(y, x + 1, y, x + 2) ELSE <<>>)
             \o (IF x - 2 >= 1 THEN Ext(y, x - 1, y, x - 2) ELSE <<>>)
             \o (IF y + 2 <= l THEN Ext(y + 1, x, y + 2, x) ELSE <<>>)
             \o (IF y - 2 >= 1 THEN Ext(y - 1, x, y - 2, x) ELSE <<>>)
        ELSE <<>>

GPS_extensions(p) ==
    LET cells == CellSeq(p.marker)
    IN  Flatten([k \in 1..Len(cells) |->
                   GPS_cell_extensions(p, cells[k][1], cells[k][2])])

(***************************************************************************)
(* WordLadderPuzzle (word_ladder_puzzle.py)                                *)
(***************************************************************************)
\* self._chars
WL_chars == <<"a", "b", "c", "d", "e", "f", "g", "h", "i", "j", "k", "l", "m",
              "n", "o", "p", "q", "r", "s", "t", "u", "v", "w", "x", "y", "z">>

\* the constructor: the path starts as [from_word]
WordLadderPuzzle(from_word, to_word, ws) ==
    [kind |-> "WL", from_word |-> from_word, to_word |-> to_word,
     word_set |-> ws, path |-> <<from_word>>]

\* the two words given to format() in the wrong order
WL_str_swapped(p) ==
    "Solving word ladder from " \o Concat(p.to_word) \o "->" \o Concat(p.from_word)

WL_str(p) ==
    "Solving word ladder from " \o Concat(p.from_word) \o "->" \o Concat(p.to_word)

WL_is_solved(p) == p.from_word = p.to_word

\* the loop body without the test of self._path
WL_step_ignores_path(p, i, j) ==
    IF p.from_word[i] # WL_chars[j]
    THEN LET new_word == [p.from_word EXCEPT ![i] = WL_chars[j]]
         IN  IF new_word \in p.word_set
             THEN <<[WordLadderPuzzle(new_word, p.to_word, p.word_set)
                       EXCEPT !.path = Append(p.path, new_word)]>>
             ELSE <<>>
    ELSE <<>>

\* the body of the two loops for position i and letter j
WL_step(p, i, j) ==
    IF p.from_word[i] # WL_chars[j]
    THEN LET new_word == [p.from_word EXCEPT ![i] = WL_chars[j]]
         IN  IF new_word \in p.word_set /\ new_word \notin Range(p.path)
             THEN <<[WordLadderPuzzle(new_word, p.to_word, p.word_set)
                       EXCEPT !.path = Append(p.path, new_word)]>>
             ELSE <<>>
    ELSE <<>>

WL_extensions(p) ==
    Flatten([i \in 1..Len(p.from_word) |->
               Flatten([j \in 1..Len(WL_chars) |-> WL_step(p, i, j)])])

(***************************************************************************)
(* An arbitrary implementer of the Puzzle contract: configurations         *)
(* 1..n, extensions() given by the table ext, is_solved() by the set       *)
(* solved and fail_fast() by the set failing.  The three classes above     *)
(* inherit fail_fast() from Puzzle, which returns False.                   *)
(***************************************************************************)
ContractPuzzle(id, ext, solved, failing) ==
    [kind |-> "P", id |-> id, ext |-> ext, solved |-> solved, failing |-> failing]

Digits == <<"1", "2", "3", "4", "5", "6", "7", "8", "9">>

P_str(p) == "configuration " \o Digits[p.id]

P_is_solved(p) == p.id \in p.solved

P_fail_fast(p) == p.id \in p.failing

P_extensions(p) ==
    [i \in 1..Len(p.ext[p.id]) |->
       ContractPuzzle(p.ext[p.id][i], p.ext, p.solved, p.failing)]

(***************************************************************************)
(* Dynamic dispatch over the puzzle classes                                *)
(***************************************************************************)
\* str(puzzle)
Str(p) ==
    CASE p.kind = "MN" -> MN_str(p)
      [] p.kind = "GPS" -> GPS_str(p)
      [] p.kind = "WL" -> WL_str(p)
      [] p.kind = "P" -> P_str(p)

\* puzzle.is_solved()
is_solved(p) ==
    CASE p.kind = "MN" -> MN_is_solved(p)
      [] p.kind = "GPS" -> GPS_is_solved(p)
      [] p.kind = "WL" -> WL_is_solved(p)
      [] p.kind = "P" -> P_is_solved(p)

\* puzzle.fail_fast()
fail_fast(p) ==
    CASE p.kind = "P" -> P_fail_fast(p)
      [] OTHER -> FALSE

\* puzzle.extensions()
extensions(p) ==
    CASE p.kind = "MN" -> MN_extensions(p)
      [] p.kind = "GPS" -> GPS_extensions(p)
      [] p.kind = "WL" -> WL_extensions(p)
      [] p.kind = "P" -> P_extensions(p)

(***************************************************************************)
(* Inputs: the puzzles handed to the solvers                               *)
(***************************************************************************)
Shapes == {s \in (1..MaxCells) \X (1..MaxCells) : s[1] * s[2] <= MaxCells}

GridsOver(symbols) == UNION {[1..s[1] -> [1..s[2] -> symbols]] : s \in Shapes}

\* the grid turned by half a turn
Rot180(g) ==
    [y \in 1..GridRows(g) |->
       [x \in 1..GridCols(g) |-> g[GridRows(g) + 1 - y][GridCols(g) + 1 - x]]]

MNTiles == {"*", "1", "2"}

\* mn_puzzle.py, __main__
Scenario1Start == <<<<"*", "2", "3">>, <<"1", "4", "5">>>>
Scenario1Target == <<<<"1", "2", "3">>, <<"4", "5", "*">>>>

MNInputs ==
    UNION {{MNPuzzle(g, g), MNPuzzle(g, Rot180(g))} : g \in GridsOver(MNTiles)}
    \cup {MNPuzzle(Scenario1Start, Scenario1Target)}

GPSMarkers == {"*", ".", "#"}

GPSInputs == {GridPegSolitairePuzzle(g, GPSMarkers) : g \in GridsOver(GPSMarkers)}

WLLetters == {"k", "o"}

WordsOfLen(n) == [1..n -> WLLetters]

WordSetsOfLen(n) == {ws \in SUBSET WordsOfLen(n) : Cardinality(ws) <= MaxWords}

\* word_ladder_puzzle.py, doctests of extensions()
Scenario2Words == {<<"o", "o">>, <<"k", "k">>, <<"o", "k">>, <<"k", "o">>}
Scenario2 == WordLadderPuzzle(<<"o", "k">>, <<"k", "o">>, Scenario2Words)

LoveWords == {<<"l", "i", "v", "e">>, <<"l", "a", "v", "e">>, <<"n", "o", "o", "n">>,
              <<"m", "o", "v", "e">>, <<"l", "o", "p", "e">>, <<"b", "o", "m", "b">>,
              <<"l", "o", "v", "e">>}
LoveBomb == WordLadderPuzzle(<<"l", "o", "v", "e">>, <<"b", "o", "m", "b">>, LoveWords)

\* a word set with words that differ from the start by a letter that is not
\* in self._chars, and with words of other lengths
MixedCase ==
    WordLadderPuzzle(<<"o", "k">>, <<"k", "K">>,
                     {<<"o", "k">>, <<"O", "k">>, <<"o", "K">>, <<"k", "k">>, <<"k", "K">>,
                      <<"k">>, <<"o", "k", "k">>})

WLInputs ==
    UNION {UNION {{WordLadderPuzzle(f, t, ws) : t \in ws \cup {f}} :
                    f \in WordsOfLen(n), ws \in WordSetsOfLen(n)} :
             n \in 1..MaxWordLen}
    \cup {Scenario2, LoveBomb, MixedCase}

RECURSIVE SortedSeq(_)
\* the members of a set of numbers in increasing order
SortedSeq(S) ==
    IF S = {} THEN <<>>
    ELSE LET m == CHOOSE x \in S : \A y \in S : x <= y
         IN  <<m>> \o SortedSeq(S \ {m})

\* the configurations configuration i may extend to: its neighbours i - 1,
\* i + 1 and i + 2
ContractNeighbours(i) == {i - 1, i + 1, i + 2} \cap (1..NumConfigs)

ContractTables ==
    {[i \in 1..NumConfigs |-> SortedSeq(f[i])] :
       f \in {g \in [1..NumConfigs -> SUBSET (1..NumConfigs)] :
                \A i \in 1..NumConfigs : g[i] \subseteq ContractNeighbours(i)}}

AtMostOne(S) == {{}} \cup {{x} : x \in S}

\* a puzzle whose fail_fast() configuration 2 has a solved extension
Shortcut ==
    ContractPuzzle(1, <<<<2, 3>>, <<5>>, <<4>>, <<5>>, <<>>>>, {5}, {2})

ContractInputs ==
    {ContractPuzzle(1, ext, solved, failing) :
       ext \in ContractTables,
       solved \in AtMostOne(1..NumConfigs),
       failing \in AtMostOne(1..NumConfigs)}
    \cup {Shortcut}

Inputs == MNInputs \cup GPSInputs \cup WLInputs \cup ContractInputs

(***************************************************************************)
(* PuzzleNode (puzzle_tools.py).  Nodes live in the sequence nodes; a      *)
(* reference to a node is its index, and None is 0.                        *)
(***************************************************************************)
PuzzleNode(p, parent) == [puzzle |-> p, parent |-> parent, children |-> <<>>]

VARIABLES
    algo,         \* "dfs": depth_first_solve, "bfs": breadth_first_solve
    puzzle,       \* the argument of the solver
    nodes,        \* every PuzzleNode created so far
    seen,         \* seen_ / seen
    stack,        \* depth_first_solve: the frames of dfs that are in their for loop
    arg,          \* depth_first_solve: puzzle_1 of the call of dfs being entered
    ret,          \* depth_first_solve: the value a call of dfs just returned
    pending_que,  \* breadth_first_solve: pending_que
    pc,           \* "call", "loop", "ret" (dfs), "while" (bfs), "done"
    result        \* what the solver returned, once pc = "done"

vars == <<algo, puzzle, nodes, seen, stack, arg, ret, pending_que, pc, result>>

Init ==
    /\ algo \in {"dfs", "bfs"}
    /\ puzzle \in Inputs
    /\ arg = puzzle
    /\ ret = None
    /\ stack = <<>>
    /\ result = None
    /\ IF algo = "dfs"
       THEN /\ nodes = <<>>
            /\ seen = {Str(puzzle)}
            /\ pending_que = <<>>
            /\ pc = "call"
       ELSE /\ nodes = <<PuzzleNode(puzzle, None)>>
            /\ seen = {}
            /\ pending_que = <<1>>
            /\ pc = "while"

(***************************************************************************)
(* depth_first_solve                                                       *)
(***************************************************************************)
Top == stack[Len(stack)]
Pop == SubSeq(stack, 1, Len(stack) - 1)

\* if puzzle_1.fail_fast(): return None
DfsFailFast ==
    /\ pc = "call"
    /\ fail_fast(arg)
    /\ ret' = None
    /\ pc' = "ret"
    /\ UNCHANGED <<algo, puzzle, nodes, seen, stack, arg, pending_que, result>>

\* is_solved() tested before fail_fast()
DfsSolvedBeforeFailFast ==
    /\ pc = "call"
    /\ is_solved(arg)
    /\ nodes' = Append(nodes, PuzzleNode(arg, None))
    /\ ret' = Len(nodes) + 1
    /\ pc' = "ret"
    /\ UNCHANGED <<algo, puzzle, seen, stack, arg, pending_que, result>>

\* elif puzzle_1.is_solved(): return PuzzleNode(puzzle_1)
DfsSolved ==
    /\ pc = "call"
    /\ ~fail_fast(arg)
    /\ is_solved(arg)
    /\ nodes' = Append(nodes, PuzzleNode(arg, None))
    /\ ret' = Len(nodes) + 1
    /\ pc' = "ret"
    /\ UNCHANGED <<algo, puzzle, seen, stack, arg, pending_que, result>>

\* else: cur_node = PuzzleNode(puzzle_1); for extension in puzzle_1.extensions()
DfsExpand ==
    /\ pc = "call"
    /\ ~fail_fast(arg)
    /\ ~is_solved(arg)
    /\ nodes' = Append(nodes, PuzzleNode(arg, None))
    /\ stack' = Append(stack, [cur_node |-> Len(nodes) + 1, exts |-> extensions(arg)])
    /\ pc' = "loop"
    /\ UNCHANGED <<algo, puzzle, seen, arg, ret, pending_que, result>>

\* the loop meets an extension whose string is in seen
DfsSkipSeen ==
    /\ pc = "loop"
    /\ Top.exts # <<>>
    /\ Str(Head(Top.exts)) \in seen
    /\ stack' = [stack EXCEPT ![Len(stack)].exts = Tail(@)]
    /\ UNCHANGED <<algo, puzzle, nodes, seen, arg, ret, pending_que, pc, result>>

\* dfs(extension, seen) called without seen.add(str(extension)) before it
DfsDescendUnmarked ==
    /\ pc = "loop"
    /\ Top.exts # <<>>
    /\ Str(Head(Top.exts)) \notin seen
    /\ arg' = Head(Top.exts)
    /\ stack' = [stack EXCEPT ![Len(stack)].exts = Tail(@)]
    /\ pc' = "call"
    /\ UNCHANGED <<algo, puzzle, nodes, seen, ret, pending_que, result>>

\* seen.add(str(extension)); child = dfs(extension, seen)
DfsDescend ==
    /\ pc = "loop"
    /\ Top.exts # <<>>
    /\ Str(Head(Top.exts)) \notin seen
    /\ seen' = seen \cup {Str(Head(Top.exts))}
    /\ arg' = Head(Top.exts)
    /\ stack' = [stack EXCEPT ![Len(stack)].exts = Tail(@)]
    /\ pc' = "call"
    /\ UNCHANGED <<algo, puzzle, nodes, ret, pending_que, result>>

\* the for loop ends: dfs returns None
DfsLoopEnd ==
    /\ pc = "loop"
    /\ Top.exts = <<>>
    /\ stack' = Pop
    /\ ret' = None
    /\ pc' = "ret"
    /\ UNCHANGED <<algo, puzzle, nodes, seen, arg, pending_que, result>>

\* the child is appended and its parent link is left as it was
DfsChildFoundNoParentLink ==
    /\ pc = "ret"
    /\ stack # <<>>
    /\ ret # None
    /\ nodes' = [nodes EXCEPT ![Top.cur_node].children = Append(@, ret)]
    /\ ret' = Top.cur_node
    /\ stack' = Pop
    /\ UNCHANGED <<algo, puzzle, seen, arg, pending_que, pc, result>>

\* the child is attached and, the return being left out, the loop goes on
DfsChildFoundGoesOn ==
    /\ pc = "ret"
    /\ stack # <<>>
    /\ ret # None
    /\ nodes' = [nodes EXCEPT ![ret].parent = Top.cur_node,
                              ![Top.cur_node].children = Append(@, ret)]
    /\ ret' = None
    /\ pc' = "loop"
    /\ UNCHANGED <<algo, puzzle, seen, stack, arg, pending_que, result>>

\* if child: child.parent = cur_node; cur_node.children.append(child);
\* return cur_node
DfsChildFound ==
    /\ pc = "ret"
    /\ stack # <<>>
    /\ ret # None
    /\ nodes' = [nodes EXCEPT ![ret].parent = Top.cur_node,
                              ![Top.cur_node].children = Append(@, ret)]
    /\ ret' = Top.cur_node
    /\ stack' = Pop
    /\ UNCHANGED <<algo, puzzle, seen, arg, pending_que, pc, result>>

\* child is None and dfs returns None at once, the later extensions untried
DfsChildNoneReturns ==
    /\ pc = "ret"
    /\ stack # <<>>
    /\ ret = None
    /\ stack' = Pop
    /\ UNCHANGED <<algo, puzzle, nodes, seen, arg, ret, pending_que, pc, result>>

\* child is None: the for loop goes on
DfsChildNone ==
    /\ pc = "ret"
    /\ stack # <<>>
    /\ ret = None
    /\ pc' = "loop"
    /\ UNCHANGED <<algo, puzzle, nodes, seen, stack, arg, ret, pending_que, result>>

\* return dfs(puzzle, seen_)
DfsReturn ==
    /\ pc = "ret"
    /\ stack = <<>>
    /\ result' = ret
    /\ pc' = "done"
    /\ UNCHANGED <<algo, puzzle, nodes, seen, stack, arg, ret, pending_que>>

(***************************************************************************)
(* breadth_first_solve                                                     *)
(***************************************************************************)
\* get_path without its loop: the solved node itself is returned
get_path_no_walk(ns, node) == [nodes |-> ns, root |-> node]

\* get_path that rewrites the children of the solved node's parent only
get_path_one_rewrite(ns, node) ==
    LET walk[n \in 1..Len(ns)] == IF ns[n].parent # None THEN walk[ns[n].parent] ELSE n
    IN  IF ns[node].parent # None
        THEN [nodes |-> [ns EXCEPT ![ns[node].parent].children = <<node>>],
              root |-> walk[node]]
        ELSE [nodes |-> ns, root |-> node]

RECURSIVE get_path(_, _)
\* while current_node_.parent is not None:
\*     current_node_.parent.children = [current_node_]
\*     current_node_ = current_node_.parent
\* the result is the nodes as rewritten and the node reached
get_path(ns, node) ==
    IF ns[node].parent # None
    THEN get_path([ns EXCEPT ![ns[node].parent].children = <<node>>], ns[node].parent)
    ELSE [nodes |-> ns, root |-> node]

current_node == Head(pending_que)

\* if current_node.puzzle.is_solved(): return get_path(current_node)
BfsSolved ==
    /\ pc = "while"
    /\ pending_que # <<>>
    /\ is_solved(nodes[current_node].puzzle)
    /\ pending_que' = Tail(pending_que)
    /\ nodes' = get_path(nodes, current_node).nodes
    /\ result' = get_path(nodes, current_node).root
    /\ pc' = "done"
    /\ UNCHANGED <<algo, puzzle, seen, stack, arg, ret>>

\* every extension is enqueued, the test of seen being left out
BfsNewExtensionsUnfiltered(p) == extensions(p)

\* the extensions of the dequeued node that are enqueued
BfsNewExtensions(p) ==
    SelectSeq(extensions(p), LAMBDA ext : Str(ext) \notin (seen \cup {Str(p)}))

\* the dequeued node is extended without seen.add(str(current_node.puzzle))
BfsExpandUnmarked ==
    /\ pc = "while"
    /\ pending_que # <<>>
    /\ ~is_solved(nodes[current_node].puzzle)
    /\ Str(nodes[current_node].puzzle) \notin seen
    /\ ~fail_fast(nodes[current_node].puzzle)
    /\ \E new \in {BfsNewExtensions(nodes[current_node].puzzle)} :
           /\ nodes' = nodes \o [i \in 1..Len(new) |-> PuzzleNode(new[i], current_node)]
           /\ pending_que' = Tail(pending_que) \o [i \in 1..Len(new) |-> Len(nodes) + i]
    /\ UNCHANGED <<algo, puzzle, seen, stack, arg, ret, pc, result>>

\* the new nodes made with parent=root_node
BfsExpandParentRoot ==
    /\ pc = "while"
    /\ pending_que # <<>>
    /\ ~is_solved(nodes[current_node].puzzle)
    /\ Str(nodes[current_node].puzzle) \notin seen
    /\ ~fail_fast(nodes[current_node].puzzle)
    /\ seen' = seen \cup {Str(nodes[current_node].puzzle)}
    /\ \E new \in {BfsNewExtensions(nodes[current_node].puzzle)} :
           /\ nodes' = nodes \o [i \in 1..Len(new) |-> PuzzleNode(new[i], 1)]
           /\ pending_que' = Tail(pending_que) \o [i \in 1..Len(new) |-> Len(nodes) + i]
    /\ UNCHANGED <<algo, puzzle, stack, arg, ret, pc, result>>

\* the new nodes put at the front of pending_que
BfsExpandAtFront ==
    /\ pc = "while"
    /\ pending_que # <<>>
    /\ ~is_solved(nodes[current_node].puzzle)
    /\ Str(nodes[current_node].puzzle) \notin seen
    /\ ~fail_fast(nodes[current_node].puzzle)
    /\ seen' = seen \cup {Str(nodes[current_node].puzzle)}
    /\ \E new \in {BfsNewExtensions(nodes[current_node].puzzle)} :
           /\ nodes' = nodes \o [i \in 1..Len(new) |-> PuzzleNode(new[i], current_node)]
           /\ pending_que' = [i \in 1..Len(new) |-> Len(nodes) + i] \o Tail(pending_que)
    /\ UNCHANGED <<algo, puzzle, stack, arg, ret, pc, result>>

\* seen.add(str(current_node.puzzle)); for ext in ...extensions():
\*     if str(ext) not in seen: pending_que.append(PuzzleNode(ext, parent=current_node))
BfsExpand ==
    /\ pc = "while"
    /\ pending_que # <<>>
    /\ ~is_solved(nodes[current_node].puzzle)
    /\ Str(nodes[current_node].puzzle) \notin seen
    /\ ~fail_fast(nodes[current_node].puzzle)
    /\ seen' = seen \cup {Str(nodes[current_node].puzzle)}
    /\ \E new \in {BfsNewExtensions(nodes[current_node].puzzle)} :
           /\ nodes' = nodes \o [i \in 1..Len(new) |-> PuzzleNode(new[i], current_node)]
           /\ pending_que' = Tail(pending_que) \o [i \in 1..Len(new) |-> Len(nodes) + i]
    /\ UNCHANGED <<algo, puzzle, stack, arg, ret, pc, result>>

\* the dequeued node's string is in seen: nothing is done with it
BfsSkipSeen ==
    /\ pc = "while"
    /\ pending_que # <<>>
    /\ ~is_solved(nodes[current_node].puzzle)
    /\ Str(nodes[current_node].puzzle) \in seen
    /\ pending_que' = Tail(pending_que)
    /\ UNCHANGED <<algo, puzzle, nodes, seen, stack, arg, ret, pc, result>>

\* the dequeued node's puzzle fails fast: nothing is done with it
BfsSkipFailFast ==
    /\ pc = "while"
    /\ pending_que # <<>>
    /\ ~is_solved(nodes[current_node].puzzle)
    /\ Str(nodes[current_node].puzzle) \notin seen
    /\ fail_fast(nodes[current_node].puzzle)
    /\ pending_que' = Tail(pending_que)
    /\ UNCHANGED <<algo, puzzle, nodes, seen, stack, arg, ret, pc, result>>

\* the function ends with return root_node
BfsExhaustedReturnsRoot ==
    /\ pc = "while"
    /\ pending_que = <<>>
    /\ result' = 1
    /\ pc' = "done"
    /\ UNCHANGED <<algo, puzzle, nodes, seen, stack, arg, ret, pending_que>>

\* pending_que is empty: the while loop ends and the function returns None
BfsExhausted ==
    /\ pc = "while"
    /\ pending_que = <<>>
    /\ result' = None
    /\ pc' = "done"
    /\ UNCHANGED <<algo, puzzle, nodes, seen, stack, arg, ret, pending_que>>

Next ==
    \/ DfsFailFast
    \/ DfsSolved
    \/ DfsExpand
    \/ DfsSkipSeen
    \/ DfsDescend
    \/ DfsLoopEnd
    \/ DfsChildFound
    \/ DfsChildNone
    \/ DfsReturn
    \/ BfsSolved
    \/ BfsExpand
    \/ BfsSkipSeen
    \/ BfsSkipFailFast
    \/ BfsExhausted

Spec == Init /\ [][Next]_vars

\* the solvers run without interruption until they return
FairSpec == Spec /\ WF_vars(Next)

(***************************************************************************)
(* The constructors called on arbitrary arguments.  algo = "new",          *)
(* arg is the class and its arguments, puzzle the object made, and pc      *)
(* goes from "new" to "built" or, when an assert fails, "AssertionError".  *)
(***************************************************************************)
\* rows of a grid argument: empty, of one cell, of two cells, and with a
\* symbol "x" no puzzle uses
RawRows == {<<>>, <<"*">>, <<".">>, <<"*", ".">>, <<"#", "*">>, <<"x", "*">>}

\* the grid arguments: no row, one row, two rows (of equal length or not)
RawGrids == {<<>>} \cup {<<r>> : r \in RawRows} \cup {<<r, q>> : r, q \in RawRows}

RawMarkerSets == {{"*", ".", "#"}, {"*", "."}, {"*", ".", "#", "x"}}

RawWords == {<<>>, <<"o", "k">>, <<"k", "o">>, <<"o", "1">>}

RawWordSets == SUBSET {<<"o", "k">>, <<"k", "o">>}

NewInputs ==
    {<<"GPS", g, ms>> : g \in RawGrids, ms \in RawMarkerSets}
    \cup {<<"MN", f, t>> : f \in RawGrids, t \in RawGrids}
    \cup {<<"WL", f, t, ws>> : f \in RawWords, t \in RawWords, ws \in RawWordSets}

NewInit ==
    /\ algo = "new"
    /\ arg \in NewInputs
    /\ puzzle = None
    /\ nodes = <<>>
    /\ seen = {}
    /\ stack = <<>>
    /\ ret = None
    /\ pending_que = <<>>
    /\ result = None
    /\ pc = "new"

\* the asserts of GridPegSolitairePuzzle.__init__
GPS_init_asserts(marker, marker_set) ==
    /\ Len(marker) > 0
    /\ \A i \in 2..Len(marker) : Len(marker[i]) = Len(marker[1])
    /\ \A i \in 1..Len(marker) : \A j \in 1..Len(marker[i]) :
          marker[i][j] \in marker_set
    /\ \A x \in marker_set : x = "*" \/ x = "." \/ x = "#"

\* the asserts of MNPuzzle.__init__
MN_init_asserts(from_grid, to_grid) ==
    /\ Len(from_grid) > 0
    /\ \A i \in 1..Len(from_grid) : Len(from_grid[i]) = Len(from_grid[1])
    /\ \A i \in 1..Len(to_grid) : Len(to_grid[i]) = Len(to_grid[1])

GPS_init ==
    /\ pc = "new"
    /\ arg[1] = "GPS"
    /\ GPS_init_asserts(arg[2], arg[3])
    /\ puzzle' = GridPegSolitairePuzzle(arg[2], arg[3])
    /\ pc' = "built"
    /\ UNCHANGED <<algo, nodes, seen, stack, arg, ret, pending_que, result>>

GPS_init_raises ==
    /\ pc = "new"
    /\ arg[1] = "GPS"
    /\ ~GPS_init_asserts(arg[2], arg[3])
    /\ pc' = "AssertionError"
    /\ UNCHANGED <<algo, puzzle, nodes, seen, stack, arg, ret, pending_que, result>>

MN_init ==
    /\ pc = "new"
    /\ arg[1] = "MN"
    /\ MN_init_asserts(arg[2], arg[3])
    /\ puzzle' = MNPuzzle(arg[2], arg[3])
    /\ pc' = "built"
    /\ UNCHANGED <<algo, nodes, seen, stack, arg, ret, pending_que, result>>

MN_init_raises ==
    /\ pc = "new"
    /\ arg[1] = "MN"
    /\ ~MN_init_asserts(arg[2], arg[3])
    /\ pc' = "AssertionError"
    /\ UNCHANGED <<algo, puzzle, nodes, seen, stack, arg, ret, pending_que, result>>

\* WordLadderPuzzle.__init__ has no assert
WL_init ==
    /\ pc = "new"
    /\ arg[1] = "WL"
    /\ puzzle' = WordLadderPuzzle(arg[2], arg[3], arg[4])
    /\ pc' = "built"
    /\ UNCHANGED <<algo, nodes, seen, stack, arg, ret, pending_que, result>>

NewNext ==
    \/ GPS_init
    \/ GPS_init_raises
    \/ MN_init
    \/ MN_init_raises
    \/ WL_init

NewSpec == NewInit /\ [][NewNext]_vars

(***************************************************************************)
(* Definitions the properties are stated with                              *)
(***************************************************************************)
RECURSIVE ReachFrom(_, _)
\* the configurations a sequence of extensions() calls leads to
ReachFrom(frontier, visited) ==
    IF frontier = {} THEN visited
    ELSE LET next == UNION {Range(extensions(q)) : q \in frontier} \ visited
         IN  ReachFrom(next, visited \cup next)

Reach(p) == ReachFrom({p}, {p})

Solvable(p) == \E q \in Reach(p) : is_solved(q)

NoFailFast(p) == \A q \in Reach(p) : ~fail_fast(q)

RECURSIVE MovesFrom(_, _, _, _)
\* the least number of extensions from the configurations of frontier (which
\* are k extensions away from the start) to a solved configuration, -1 when
\* there is none; with prune, configurations that fail fast are not extended
MovesFrom(frontier, visited, k, prune) ==
    IF \E q \in frontier : is_solved(q) THEN k
    ELSE IF frontier = {} THEN -1
    ELSE LET open == {q \in frontier : ~(prune /\ fail_fast(q))}
             next == UNION {Range(extensions(q)) : q \in open} \ visited
         IN  MovesFrom(next, visited \cup next, k + 1, prune)

\* length of the shortest sequence of extensions from p to a solved configuration
MinMoves(p) == MovesFrom({p}, {p}, 0, FALSE)

\* the same over the sequences in which only the last configuration may fail fast
MinMovesNoFailFast(p) == MovesFrom({p}, {p}, 0, TRUE)

RECURSIVE Chain(_)
\* the nodes from node n down the first-child links
Chain(n) ==
    IF nodes[n].children = <<>> THEN <<n>>
    ELSE <<n>> \o Chain(nodes[n].children[1])

Leaf(n) == Chain(n)[Len(Chain(n))]

\* number of edges from the returned root to its leaf
PathLength == Len(Chain(result)) - 1

Returned == pc = "done"

ReturnedPath == pc = "done" /\ result # None

\* the state in which the solver is entered
Entered ==
    \/ algo = "dfs" /\ pc = "call" /\ nodes = <<>>
    \/ algo = "bfs" /\ pc = "while" /\ seen = {} /\ pending_que = <<1>>

\* some reachable configuration comes back to its own string after two moves
Cyclic(p) ==
    \E q \in Reach(p) : \E e \in Range(extensions(q)) :
        \E e2 \in Range(extensions(e)) : Str(e2) = Str(q)

(***************************************************************************)
(* C1: whenever depth_first_solve or breadth_first_solve has returned, the *)
(* result is None or a node whose puzzle is the initial configuration and  *)
(* whose leaf, down the single-child links, is solved.                     *)
(***************************************************************************)
C1_RootInitialLeafSolved ==
    ReturnedPath =>
        /\ nodes[result].puzzle = puzzle
        /\ is_solved(nodes[Leaf(result)].puzzle)

C1_Witness ==
    /\ ReturnedPath
    /\ algo = "bfs"
    /\ PathLength >= 2
    /\ nodes[result].puzzle = puzzle
    /\ is_solved(nodes[Leaf(result)].puzzle)

(***************************************************************************)
(* C2: in the returned chain every child's puzzle is one of the            *)
(* extensions() of its parent's puzzle.                                    *)
(***************************************************************************)
C2_ChainOfExtensions ==
    ReturnedPath =>
        \A i \in 1..(Len(Chain(result)) - 1) :
            nodes[Chain(result)[i + 1]].puzzle
                \in Range(extensions(nodes[Chain(result)[i]].puzzle))

C2_Witness ==
    /\ ReturnedPath
    /\ algo = "dfs"
    /\ PathLength >= 3
    /\ \A i \in 1..(Len(Chain(result)) - 1) :
            nodes[Chain(result)[i + 1]].puzzle
                \in Range(extensions(nodes[Chain(result)[i]].puzzle))

C4_UnsolvableReturnsNone ==
    /\ (Entered /\ ~Solvable(puzzle)) ~> Returned
    /\ []((Returned /\ ~Solvable(puzzle)) => result = None)

C4_Witness ==
    /\ Returned
    /\ result = None
    /\ ~Solvable(puzzle)
    /\ Cyclic(puzzle)
    /\ Cardinality(seen) >= 3

(***************************************************************************)
(* C5: when no configuration fails fast and a solved configuration can be  *)
(* reached from the initial one, each solver returns a path.               *)
(***************************************************************************)
C5_SolvableReturnsPath ==
    (Returned /\ NoFailFast(puzzle) /\ Solvable(puzzle)) => result # None

C5_Witness ==
    /\ ReturnedPath
    /\ algo = "dfs"
    /\ NoFailFast(puzzle)
    /\ Solvable(puzzle)
    /\ ~is_solved(puzzle)
    /\ Cardinality(seen) > Len(Chain(result))

(***************************************************************************)
(* C6 as stated: no entry of extensions() has the string of the puzzle it  *)
(* was generated from, for the puzzle of every node the solvers create.    *)
(* MNPuzzle breaks it on a grid with two adjacent "*".                     *)
(***************************************************************************)
NoSelfExtension(p) == \A e \in Range(extensions(p)) : Str(e) # Str(p)

\* the nodes on whose puzzle extensions() has been called: in
\* depth_first_solve those of the frames, in breadth_first_solve those whose
\* string is in seen
Extended ==
    IF algo = "dfs" THEN {stack[i].cur_node : i \in 1..Len(stack)}
    ELSE {n \in 1..Len(nodes) : Str(nodes[n].puzzle) \in seen}

C6_NoExtensionEqualsSelf ==
    \A n \in Extended : NoSelfExtension(nodes[n].puzzle)

(***************************************************************************)
(* C7: sliding puzzle scenario.  extensions() of the start grid is the     *)
(* blank moved right, then the blank moved down, and breadth_first_solve   *)
(* entered with it returns a path from the start grid to the target.       *)
(***************************************************************************)
Scenario1 == MNPuzzle(Scenario1Start, Scenario1Target)

Scenario1Right == <<<<"2", "*", "3">>, <<"1", "4", "5">>>>
Scenario1Down == <<<<"1", "2", "3">>, <<"*", "4", "5">>>>

Scenario1Solved ==
    /\ ReturnedPath
    /\ nodes[result].puzzle.from_grid = Scenario1Start
    /\ nodes[Leaf(result)].puzzle.from_grid = Scenario1Target

C7_SlidingScenario ==
    /\ [](puzzle = Scenario1 =>
            extensions(puzzle) = <<MNPuzzle(Scenario1Right, Scenario1Target),
                                   MNPuzzle(Scenario1Down, Scenario1Target)>>)
    /\ (puzzle = Scenario1 /\ algo = "bfs" /\ Entered) ~> Returned
    /\ []((puzzle = Scenario1 /\ algo = "bfs" /\ Returned) => Scenario1Solved)

C7_Witness ==
    /\ puzzle = Scenario1
    /\ algo = "bfs"
    /\ Scenario1Solved
    /\ Len(extensions(puzzle)) = 2

(***************************************************************************)
(* C8: on a grid with one "*", MNPuzzle.extensions() has one entry per     *)
(* in-bounds neighbour of the blank, in the order right, left, down, up;   *)
(* each is the grid with the blank and that tile swapped and nothing else  *)
(* changed, with the same target; is_solved() holds exactly when the grid  *)
(* equals the target.                                                      *)
(***************************************************************************)
Blanks(g) == {c \in Range(CellSeq(g)) : g[c[1]][c[2]] = "*"}

\* right, left, down, up of cell c
Directions == <<<<0, 1>>, <<0, -1>>, <<1, 0>>, <<-1, 0>>>>

InGrid(g, c) == c[1] \in 1..GridRows(g) /\ c[2] \in 1..GridCols(g)

NeighboursInOrder(g, c) ==
    SelectSeq([d \in 1..4 |-> <<c[1] + Directions[d][1], c[2] + Directions[d][2]>>],
              LAMBDA n : InGrid(g, n))

\* h is g with the contents of cells a and b exchanged
IsSwap(g, h, a, b) ==
    /\ GridRows(h) = GridRows(g)
    /\ \A y \in 1..GridRows(g) : Len(h[y]) = GridCols(g)
    /\ \A c \in Range(CellSeq(g)) :
          h[c[1]][c[2]] = IF c = a THEN g[b[1]][b[2]]
                          ELSE IF c = b THEN g[a[1]][a[2]]
                          ELSE g[c[1]][c[2]]

MNExtensionsRight(p) ==
    LET g == p.from_grid
        blank == CHOOSE c \in Blanks(g) : TRUE
        nbrs == NeighboursInOrder(g, blank)
        exts == extensions(p)
    IN  /\ Len(exts) = Len(nbrs)
        /\ \A i \in 1..Len(nbrs) :
              /\ exts[i].kind = "MN"
              /\ IsSwap(g, exts[i].from_grid, blank, nbrs[i])
              /\ exts[i].to_grid = p.to_grid

C8_MNExtensions ==
    \A n \in 1..Len(nodes) :
        (nodes[n].puzzle.kind = "MN" /\ Cardinality(Blanks(nodes[n].puzzle.from_grid)) = 1)
            => /\ MNExtensionsRight(nodes[n].puzzle)
               /\ is_solved(nodes[n].puzzle)
                    <=> (nodes[n].puzzle.from_grid = nodes[n].puzzle.to_grid)

C8_Witness ==
    \E n \in 1..Len(nodes) :
        /\ nodes[n].puzzle.kind = "MN"
        /\ Cardinality(Blanks(nodes[n].puzzle.from_grid)) = 1
        /\ Len(extensions(nodes[n].puzzle)) = 3
        /\ MNExtensionsRight(nodes[n].puzzle)
        /\ n > 1

(***************************************************************************)
(* C9: word ladder scenario.  extensions() of "ok" -> "ko" over            *)
(* {oo, kk, ok, ko} is [kk -> ko, oo -> ko], and breadth_first_solve       *)
(* entered with it returns a path of two steps, ok, kk, ko or ok, oo, ko.  *)
(***************************************************************************)
ChainWords == [i \in 1..Len(Chain(result)) |-> nodes[Chain(result)[i]].puzzle.from_word]

Scenario2Solved ==
    /\ ReturnedPath
    /\ PathLength = 2
    /\ ChainWords \in {<<<<"o", "k">>, <<"k", "k">>, <<"k", "o">>>>,
                       <<<<"o", "k">>, <<"o", "o">>, <<"k", "o">>>>}

Scenario2Extensions ==
    LET exts == extensions(Scenario2)
    IN  /\ Len(exts) = 2
        /\ Str(exts[1]) = "Solving word ladder from kk->ko"
        /\ Str(exts[2]) = "Solving word ladder from oo->ko"
        /\ exts[1].from_word = <<"k", "k">>
        /\ exts[2].from_word = <<"o", "o">>
        /\ \A i \in 1..2 : exts[i].to_word = <<"k", "o">>

C9_WordLadderScenario ==
    /\ [](puzzle = Scenario2 => Scenario2Extensions)
    /\ (puzzle = Scenario2 /\ algo = "bfs" /\ Entered) ~> Returned
    /\ []((puzzle = Scenario2 /\ algo = "bfs" /\ Returned) => Scenario2Solved)

C9_Witness ==
    /\ puzzle = Scenario2
    /\ algo = "bfs"
    /\ Scenario2Solved
    /\ Scenario2Extensions

(***************************************************************************)
(* C10: WordLadderPuzzle.extensions() returns exactly the puzzles whose    *)
(* word is in the word set, has the length of the current word, differs    *)
(* from it in exactly one position by a letter of a..z, and is not on the  *)
(* recorded path; ordered by changed position, then by the letter; each    *)
(* with the same target word and word set.                                 *)
(***************************************************************************)
DiffPositions(v, w) == {i \in 1..Len(v) : v[i] # w[i]}

\* the one position where word w differs from word v
ChangedPosition(v, w) == CHOOSE i \in DiffPositions(v, w) : TRUE

\* place of a letter in the alphabet a..z
LetterRank(ch) == CHOOSE j \in 1..Len(WL_chars) : WL_chars[j] = ch

WLOneLetterAway(p) ==
    {w \in p.word_set :
        /\ Len(w) = Len(p.from_word)
        /\ Cardinality(DiffPositions(p.from_word, w)) = 1
        /\ w[ChangedPosition(p.from_word, w)] \in Range(WL_chars)
        /\ w \notin Range(p.path)}

WLExtensionsRight(p) ==
    LET exts == extensions(p)
        pos(i) == ChangedPosition(p.from_word, exts[i].from_word)
        rank(i) == LetterRank(exts[i].from_word[pos(i)])
    IN  /\ {exts[i].from_word : i \in 1..Len(exts)} = WLOneLetterAway(p)
        /\ \A i \in 1..Len(exts) :
              /\ exts[i].kind = "WL"
              /\ exts[i].to_word = p.to_word
              /\ exts[i].word_set = p.word_set
        /\ \A i, j \in 1..Len(exts) :
              i < j => \/ pos(i) < pos(j)
                       \/ pos(i) = pos(j) /\ rank(i) < rank(j)

C10_WLExtensions ==
    \A n \in 1..Len(nodes) :
        nodes[n].puzzle.kind = "WL" => WLExtensionsRight(nodes[n].puzzle)

\* a puzzle with four extensions, and one a move away from it whose
\* extensions leave out the word it came from
C10_Witness ==
    \E m, n \in 1..Len(nodes) :
        /\ nodes[m].puzzle.kind = "WL"
        /\ Len(extensions(nodes[m].puzzle)) = 4
        /\ WLExtensionsRight(nodes[m].puzzle)
        /\ nodes[n].puzzle \in Range(extensions(nodes[m].puzzle))
        /\ Len(extensions(nodes[n].puzzle)) >= 1
        /\ WLExtensionsRight(nodes[n].puzzle)

(***************************************************************************)
(* Peg solitaire: the jumps of a grid, stated from the cells               *)
(***************************************************************************)
CellsWith(g, m) == {c \in Range(CellSeq(g)) : g[c[1]][c[2]] = m}

\* the pairs <<c, d>>: c is empty and the two cells next to it in direction
\* d both hold a peg
JumpableTriples(g) ==
    {t \in Range(CellSeq(g)) \X Range(Directions) :
        LET c == t[1]
            a == <<c[1] + t[2][1], c[2] + t[2][2]>>
            b == <<c[1] + 2 * t[2][1], c[2] + 2 * t[2][2]>>
        IN  /\ InGrid(g, b)
            /\ g[c[1]][c[2]] = "."
            /\ g[a[1]][a[2]] = "*"
            /\ g[b[1]][b[2]] = "*"}

\* h is g after the far peg of the triple <<c, d>> has landed on c
IsJump(g, h, c, d) ==
    LET a == <<c[1] + d[1], c[2] + d[2]>>
        b == <<c[1] + 2 * d[1], c[2] + 2 * d[2]>>
    IN  /\ GridRows(h) = GridRows(g)
        /\ \A y \in 1..GridRows(g) : Len(h[y]) = GridCols(g)
        /\ \A x \in Range(CellSeq(g)) :
              h[x[1]][x[2]] = IF x = c THEN "*"
                              ELSE IF x \in {a, b} THEN "."
                              ELSE g[x[1]][x[2]]

\* every node made so far holds the initial configuration, and no other
\* string has entered seen
OnlyRootExpanded ==
    /\ \A n \in 1..Len(nodes) : nodes[n].puzzle = puzzle
    /\ seen \subseteq {Str(puzzle)}
    /\ Len(nodes) <= 1

NoJumpGrid == puzzle.kind = "GPS" /\ JumpableTriples(puzzle.marker) = {}

(***************************************************************************)
(* C11 as stated: for a peg grid without a jumpable triple, extensions()   *)
(* is empty and both solvers return None, no configuration but the root    *)
(* having been expanded.                                                   *)
(***************************************************************************)
C11_Original_NoJumpNoSolution ==
    NoJumpGrid =>
        /\ extensions(puzzle) = <<>>
        /\ OnlyRootExpanded
        /\ Returned => result = None

(***************************************************************************)
(* C11 amended: for a peg grid without a jumpable triple, extensions() is  *)
(* empty and no configuration but the root is expanded; the solvers        *)
(* return None when the grid does not hold exactly one peg, and the root   *)
(* alone when it does.                                                     *)
(***************************************************************************)
C11_NoJumpNoExpansion ==
    NoJumpGrid =>
        /\ extensions(puzzle) = <<>>
        /\ OnlyRootExpanded
        /\ Returned =>
              IF Cardinality(CellsWith(puzzle.marker, "*")) = 1
              THEN result = 1 /\ nodes[1].children = <<>>
              ELSE result = None

C11_Witness ==
    /\ NoJumpGrid
    /\ algo = "dfs"
    /\ Cardinality(CellsWith(puzzle.marker, "*")) >= 2
    /\ CellsWith(puzzle.marker, ".") # {}
    /\ Returned
    /\ result = None
    /\ Len(nodes) = 1

(***************************************************************************)
(* C12: extensions() of a peg grid is exactly the results of its legal     *)
(* jumps, one entry per jumpable triple; every entry has one peg fewer,    *)
(* the same "#" cells and the same marker set.                             *)
(***************************************************************************)
GPSExtensionsRight(p) ==
    LET exts == extensions(p)
        T == JumpableTriples(p.marker)
    IN  /\ Len(exts) = Cardinality(T)
        /\ \A t \in T : \E i \in 1..Len(exts) :
              IsJump(p.marker, exts[i].marker, t[1], t[2])
        /\ \A i \in 1..Len(exts) :
              /\ \E t \in T : IsJump(p.marker, exts[i].marker, t[1], t[2])
              /\ exts[i].kind = "GPS"
              /\ exts[i].marker_set = p.marker_set
              /\ Cardinality(CellsWith(exts[i].marker, "*"))
                    = Cardinality(CellsWith(p.marker, "*")) - 1
              /\ CellsWith(exts[i].marker, "#") = CellsWith(p.marker, "#")

C12_GPSExtensions ==
    \A n \in 1..Len(nodes) :
        nodes[n].puzzle.kind = "GPS" => GPSExtensionsRight(nodes[n].puzzle)

C12_Witness ==
    \E m, n \in 1..Len(nodes) :
        /\ nodes[m].puzzle.kind = "GPS"
        /\ Len(extensions(nodes[m].puzzle)) >= 2
        /\ nodes[n].puzzle \in Range(extensions(nodes[m].puzzle))
        /\ GPSExtensionsRight(nodes[m].puzzle)
        /\ GPSExtensionsRight(nodes[n].puzzle)

(***************************************************************************)
(* C13: a constructor that returns an object was given well-formed         *)
(* arguments: every grid has at least one row and rows of one length, the  *)
(* word is not empty, and the symbols of a peg grid are in its marker set  *)
(* (the other two classes are given no set of allowed symbols).            *)
(***************************************************************************)
Rectangular(g) == \A i \in 1..Len(g) : Len(g[i]) = Len(g[1])

WellFormedArguments ==
    CASE arg[1] = "GPS" ->
            /\ Len(arg[2]) > 0
            /\ Rectangular(arg[2])
            /\ \A i \in 1..Len(arg[2]) : Range(arg[2][i]) \subseteq arg[3]
      [] arg[1] = "MN" ->
            /\ Len(arg[2]) > 0 /\ Rectangular(arg[2])
            /\ Len(arg[3]) > 0 /\ Rectangular(arg[3])
      [] arg[1] = "WL" ->
            /\ Len(arg[2]) > 0
            /\ Len(arg[3]) > 0

C13_ConstructorsValidate == pc = "built" => WellFormedArguments

(***************************************************************************)
(* C14: the returned tree is a linear path.  Down from the returned root   *)
(* every node has exactly one child until a node without children, which   *)
(* is solved; up from that leaf every parent's children are the one node   *)
(* of the path; in depth_first_solve no node has two children at any time. *)
(***************************************************************************)
RECURSIVE ParentChain(_)
\* the nodes from the topmost ancestor of n down the parent links to n
ParentChain(n) ==
    IF nodes[n].parent = None THEN <<n>>
    ELSE ParentChain(nodes[n].parent) \o <<n>>

C14_LinearPath ==
    /\ algo = "dfs" => \A n \in 1..Len(nodes) : Len(nodes[n].children) <= 1
    /\ ReturnedPath =>
          LET down == Chain(result)
              up == ParentChain(Leaf(result))
          IN  /\ \A i \in 1..(Len(down) - 1) : Len(nodes[down[i]].children) = 1
              /\ nodes[Leaf(result)].children = <<>>
              /\ is_solved(nodes[Leaf(result)].puzzle)
              /\ \A i \in 1..(Len(up) - 1) : nodes[up[i]].children = <<up[i + 1]>>

C14_Witness ==
    /\ ReturnedPath
    /\ algo = "bfs"
    /\ PathLength >= 2
    /\ \E n \in 1..Len(nodes) : n \notin Range(Chain(result))
    /\ \A i \in 1..PathLength : Len(nodes[Chain(result)[i]].children) = 1
    /\ is_solved(nodes[Leaf(result)].puzzle)

(***************************************************************************)
(* C15: in the result the returned node is the one root (its parent is     *)
(* None), and every other node of the result has a parent whose children   *)
(* sequence contains it.                                                   *)
(***************************************************************************)
C15_OneRootParentsHoldChildren ==
    ReturnedPath =>
        LET down == Chain(result)
        IN  /\ nodes[result].parent = None
            /\ \A i \in 2..Len(down) :
                  /\ nodes[down[i]].parent # None
                  /\ down[i] \in Range(nodes[nodes[down[i]].parent].children)
                  /\ nodes[down[i]].parent \in Range(down)

C15_Witness ==
    /\ ReturnedPath
    /\ algo = "dfs"
    /\ PathLength >= 2
    /\ nodes[result].parent = None
    /\ \A i \in 2..Len(Chain(result)) :
          nodes[Chain(result)[i]].parent = Chain(result)[i - 1]

(***************************************************************************)
(* C16: depth_first_solve returns the first solution it meets and          *)
(* short-circuits.  Until a call of dfs has returned a node, no            *)
(* configuration wrapped in a node is solved; from the moment a call has   *)
(* returned a node, every step keeps a node being returned, adds nothing   *)
(* to seen, makes no node (so calls extensions() no more) and takes no     *)
(* extension from the loop of any frame.                                   *)
(***************************************************************************)
DfsFound ==
    /\ algo = "dfs"
    /\ \/ pc = "ret" /\ ret # None
       \/ pc = "done" /\ result # None

NoSolutionPassedOver ==
    (algo = "dfs" /\ ~DfsFound) =>
        \A n \in 1..Len(nodes) : ~is_solved(nodes[n].puzzle)

ShortCircuit ==
    DfsFound =>
        /\ DfsFound'
        /\ seen' = seen
        /\ Len(nodes') = Len(nodes)
        /\ stack' = stack \/ stack' = Pop
        /\ \A n \in 1..Len(nodes) :
              is_solved(nodes[n].puzzle) => n = Leaf(IF pc = "ret" THEN ret ELSE result)

C16_DfsFirstSolutionShortCircuits ==
    /\ []NoSolutionPassedOver
    /\ [][ShortCircuit]_vars

C16_Witness ==
    /\ DfsFound
    /\ pc = "ret"
    /\ Len(stack) >= 2
    /\ \E i \in 1..Len(stack) : \E e \in Range(stack[i].exts) : Str(e) \notin seen

(***************************************************************************)
(* C17: no step of either solver takes a string out of seen; in            *)
(* breadth_first_solve a step that dequeues a node whose string is in seen *)
(* enqueues nothing and leaves seen as it is, and no step makes a node for *)
(* a configuration whose string is in seen.                                *)
(***************************************************************************)
NewNodes == (Len(nodes) + 1)..Len(nodes')

SeenOnlyGrowsAndSkips ==
    /\ seen \subseteq seen'
    /\ (algo = "bfs" /\ pending_que # <<>>) =>
          /\ \A n \in NewNodes :
                /\ Str(nodes'[n].puzzle) \notin seen
                /\ Str(nodes'[n].puzzle) \notin seen'
          /\ Str(nodes[current_node].puzzle) \in seen =>
                /\ NewNodes = {}
                /\ pending_que' = Tail(pending_que)
                /\ seen' = seen

C17_VisitedSetInsertOnlyAndSkips == [][SeenOnlyGrowsAndSkips]_vars

\* a second node of a string already expanded has been dequeued and skipped
C17_Witness ==
    /\ algo = "bfs"
    /\ pc = "while"
    /\ \E m, n \in 1..Len(nodes) :
          /\ m < n
          /\ Str(nodes[m].puzzle) = Str(nodes[n].puzzle)
          /\ Str(nodes[n].puzzle) \in seen
          /\ ~is_solved(nodes[n].puzzle)
          /\ n \notin Range(pending_que)
          /\ \A k \in 1..Len(nodes) : nodes[k].parent # n
          /\ \E k \in 1..Len(nodes) : nodes[k].parent = m

(***************************************************************************)
(* C18: breadth_first_solve dequeues nodes in non-decreasing order of      *)
(* depth (number of parent links up to the root).  The queue is sorted by  *)
(* depth, its nodes are at the depth of its head or one more, every node   *)
(* dequeued earlier is no deeper than any node in the queue, and the       *)
(* solved node that ends the search is no deeper than any solved node ever *)
(* enqueued.                                                               *)
(***************************************************************************)
Depth(n) == Len(ParentChain(n)) - 1

Dequeued == (1..Len(nodes)) \ Range(pending_que)

C18_BfsDequeuesByDepth ==
    algo = "bfs" =>
        /\ \A i, j \in 1..Len(pending_que) :
              i <= j => /\ Depth(pending_que[i]) <= Depth(pending_que[j])
                        /\ Depth(pending_que[j]) <= Depth(pending_que[1]) + 1
        /\ \A n \in Dequeued : \A q \in Range(pending_que) : Depth(n) <= Depth(q)
        /\ ReturnedPath =>
              \A n \in 1..Len(nodes) :
                  is_solved(nodes[n].puzzle) => Depth(Leaf(result)) <= Depth(n)

C18_Witness ==
    /\ algo = "bfs"
    /\ pc = "while"
    /\ Len(pending_que) >= 3
    /\ Depth(pending_que[1]) = 2
    /\ Depth(pending_que[Len(pending_que)]) = 3
    /\ \E n \in Dequeued : Depth(n) = 2

(***************************************************************************)
(* C19: in depth_first_solve fail_fast() is tested before is_solved().  A  *)
(* call of dfs on a configuration that fails fast returns None without     *)
(* making a node or a frame, whether or not the configuration is solved;   *)
(* no node ever wraps such a configuration (so it is on no returned path   *)
(* and extensions() is never called on it); and when the initial           *)
(* configuration fails fast the search returns None.                       *)
(***************************************************************************)
FailFastNeverWrapped ==
    algo = "dfs" =>
        /\ \A n \in 1..Len(nodes) : ~fail_fast(nodes[n].puzzle)
        /\ (Returned /\ fail_fast(puzzle)) => result = None

FailFastCallReturnsNone ==
    (algo = "dfs" /\ pc = "call" /\ fail_fast(arg)) =>
        /\ pc' = "ret"
        /\ ret' = None
        /\ nodes' = nodes
        /\ stack' = stack
        /\ seen' = seen

C19_FailFastBeforeIsSolved ==
    /\ []FailFastNeverWrapped
    /\ [][FailFastCallReturnsNone]_vars

\* a call on a configuration both solved and failing fast has returned None
\* to a frame of the loop
C19_Witness ==
    /\ algo = "dfs"
    /\ pc = "ret"
    /\ ret = None
    /\ stack # <<>>
    /\ fail_fast(arg)
    /\ is_solved(arg)
    /\ \A n \in 1..Len(nodes) : nodes[n].puzzle # arg

(***************************************************************************)
(* C20 as stated, for the calls of dfs made from the loop: a configuration *)
(* that fails fast is pruned without its string having been put in seen.   *)
(***************************************************************************)
C20_Original_PrunedUnmarked ==
    (algo = "dfs" /\ pc = "call" /\ stack # <<>> /\ fail_fast(arg)) =>
        Str(arg) \notin seen

(***************************************************************************)
(* C20 amended: every configuration dfs is called on, those that fail fast *)
(* included, has its string in seen before fail_fast() is tested, and dfs  *)
(* is called from the loop only on a string that was not in seen; so a     *)
(* configuration that failed fast is not tested again in the same search.  *)
(***************************************************************************)
CalledMarked ==
    (algo = "dfs" /\ pc = "call") => Str(arg) \in seen

CalledOnce ==
    (algo = "dfs" /\ pc = "loop" /\ pc' = "call") =>
        /\ Str(arg') \notin seen
        /\ Str(arg') \in seen'
        /\ seen \subseteq seen'

C20_FailFastPrunedAfterMarked ==
    /\ []CalledMarked
    /\ [][CalledOnce]_vars

\* the loop meets, by another path, a configuration that failed fast before
C20_Witness ==
    /\ algo = "dfs"
    /\ pc = "loop"
    /\ Top.exts # <<>>
    /\ fail_fast(Head(Top.exts))
    /\ Head(Top.exts) # puzzle
    /\ Str(Head(Top.exts)) \in seen
    /\ \A n \in 1..Len(nodes) : nodes[n].puzzle # Head(Top.exts)

(***************************************************************************)
(* C21: in breadth_first_solve every node of the queue that has a parent   *)
(* is in the children sequence of that parent.                             *)
(***************************************************************************)
C21_FrontierAttachedAtEnqueue ==
    algo = "bfs" =>
        \A i \in 1..Len(pending_que) :
            nodes[pending_que[i]].parent # None =>
                pending_que[i] \in Range(nodes[nodes[pending_que[i]].parent].children)

(***************************************************************************)
(* The generation paths the solvers hold: a configuration together with    *)
(* the strings of the configurations it was produced from by a chain of    *)
(* extensions() calls (the parent links in breadth_first_solve, the frames *)
(* of dfs below its own in depth_first_solve).                             *)
(***************************************************************************)
GenerationPaths ==
    IF algo = "bfs"
    THEN {<<nodes[n].puzzle,
            {Str(nodes[a].puzzle) : a \in Range(ParentChain(n)) \ {n}}>> :
            n \in 1..Len(nodes)}
    ELSE IF algo = "dfs"
    THEN {<<nodes[stack[i].cur_node].puzzle,
            {Str(nodes[stack[j].cur_node].puzzle) : j \in 1..(i - 1)}>> :
            i \in 1..Len(stack)}
    ELSE {}

NoneOnAncestry(g) == \A e \in Range(extensions(g[1])) : Str(e) \notin g[2]

(***************************************************************************)
(* C22 as stated: for the three puzzle classes, no extension of a          *)
(* configuration has the string of a configuration it was produced from.   *)
(***************************************************************************)
C22_Original_NoExtensionOnAncestry ==
    \A g \in GenerationPaths :
        g[1].kind \in {"MN", "GPS", "WL"} => NoneOnAncestry(g)

(***************************************************************************)
(* C22 amended: for GridPegSolitairePuzzle and WordLadderPuzzle, no        *)
(* extension of a configuration has the string of a configuration it was   *)
(* produced from.                                                          *)
(***************************************************************************)
C22_NoExtensionOnAncestryPegAndWord ==
    \A g \in GenerationPaths :
        g[1].kind \in {"GPS", "WL"} => NoneOnAncestry(g)

\* a word two moves down from a word one letter away from it
C22_Witness ==
    /\ algo = "bfs"
    /\ \E n \in 1..Len(nodes) :
          /\ nodes[n].puzzle.kind = "WL"
          /\ nodes[n].parent # None
          /\ \E a \in Range(ParentChain(n)) \ {n, nodes[n].parent} :
                /\ Cardinality(DiffPositions(nodes[a].puzzle.from_word,
                                             nodes[n].puzzle.from_word)) = 1
                /\ nodes[a].puzzle.from_word \in nodes[n].puzzle.word_set
          /\ \A e \in Range(extensions(nodes[n].puzzle)) :
                \A a \in Range(ParentChain(n)) : Str(e) # Str(nodes[a].puzzle)

(***************************************************************************)
(* C23: extensions() is called at most once per canonical string in one    *)
(* search, so there are no more expansions than reachable strings.  In     *)
(* depth_first_solve the nodes made have pairwise different strings, each  *)
(* made for a string already in seen; in breadth_first_solve no two nodes  *)
(* of one string both have child nodes, a step that makes child nodes puts *)
(* the string of the dequeued node, not in seen before, into seen, and     *)
(* when the search has returned seen holds reachable strings only.         *)
(***************************************************************************)
ReachStrings == {Str(q) : q \in Reach(puzzle)}

Parents == {nodes[n].parent : n \in 1..Len(nodes)} \ {None}

ExpandedOncePerString ==
    /\ algo = "dfs" =>
          /\ \A m, n \in 1..Len(nodes) :
                m # n => Str(nodes[m].puzzle) # Str(nodes[n].puzzle)
          /\ \A n \in 1..Len(nodes) : Str(nodes[n].puzzle) \in seen
          /\ Returned => Len(nodes) <= Cardinality(ReachStrings)
    /\ algo = "bfs" =>
          /\ \A m, n \in Parents :
                m # n => Str(nodes[m].puzzle) # Str(nodes[n].puzzle)
          /\ \A m \in Parents : Str(nodes[m].puzzle) \in seen
          /\ Returned => seen \subseteq ReachStrings

ExpansionMarks ==
    /\ (algo = "bfs" /\ NewNodes # {}) =>
          /\ Str(nodes[current_node].puzzle) \notin seen
          /\ seen' = seen \cup {Str(nodes[current_node].puzzle)}
    /\ (algo = "dfs" /\ NewNodes # {}) =>
          /\ Str(arg) \in seen
          /\ \A n \in 1..Len(nodes) : Str(nodes[n].puzzle) # Str(arg)

C23_ExtensionsOncePerString ==
    /\ []ExpandedOncePerString
    /\ [][ExpansionMarks]_vars

\* the queue holds two nodes of one string at once, after a first expansion
C23_Witness ==
    /\ algo = "bfs"
    /\ pc = "while"
    /\ seen # {}
    /\ \E i, j \in 1..Len(pending_que) :
          /\ i < j
          /\ Str(nodes[pending_que[i]].puzzle) = Str(nodes[pending_que[j]].puzzle)
          /\ Str(nodes[pending_que[i]].puzzle) \notin seen
          /\ extensions(nodes[pending_que[i]].puzzle) # <<>>

(***************************************************************************)
(* C24: when no reachable solved configuration fails fast, both solvers    *)
(* return a path exactly when a solved configuration can be reached by     *)
(* extensions through configurations that do not fail fast; this test      *)
(* does not depend on the solver, so the two agree.  The path of           *)
(* breadth_first_solve has the least number of moves of such a route, and  *)
(* the path of depth_first_solve has no fewer.                             *)
(***************************************************************************)
NoSolvedFailFast(p) == \A q \in Reach(p) : is_solved(q) => ~fail_fast(q)

C24_SolversAgreeOnSolvability ==
    (Returned /\ algo \in {"dfs", "bfs"} /\ NoSolvedFailFast(puzzle)) =>
        /\ result # None <=> MinMovesNoFailFast(puzzle) >= 0
        /\ (result # None /\ algo = "bfs") => PathLength = MinMovesNoFailFast(puzzle)
        /\ (result # None /\ algo = "dfs") => PathLength >= MinMovesNoFailFast(puzzle)

\* depth_first_solve has returned a path of several moves for a puzzle one
\* of whose configurations fails fast and has a solved extension
C24_Witness ==
    /\ Returned
    /\ algo = "dfs"
    /\ NoSolvedFailFast(puzzle)
    /\ \E q \in Reach(puzzle) :
          fail_fast(q) /\ \E e \in Range(extensions(q)) : is_solved(e)
    /\ result # None
    /\ PathLength >= 2
    /\ PathLength >= MinMovesNoFailFast(puzzle)

(***************************************************************************)
(* C25: a path returned for a peg grid with k pegs has k - 1 moves, each   *)
(* node of it holding one peg fewer than the node before; and no grid      *)
(* reachable from the initial one is reached again from its own            *)
(* extensions.                                                             *)
(***************************************************************************)
PegCount(p) == Cardinality(CellsWith(p.marker, "*"))

\* the configurations reached from q by one extension or more
ProperReach(q) == ReachFrom(Range(extensions(q)), Range(extensions(q)))

C25_PegPathLength ==
    puzzle.kind = "GPS" =>
        /\ \A q \in Reach(puzzle) : q \notin ProperReach(q)
        /\ ReturnedPath =>
              /\ PathLength = PegCount(puzzle) - 1
              /\ \A i \in 1..PathLength :
                    PegCount(nodes[Chain(result)[i + 1]].puzzle)
                        = PegCount(nodes[Chain(result)[i]].puzzle) - 1

C25_Witness ==
    /\ puzzle.kind = "GPS"
    /\ ReturnedPath
    /\ algo = "bfs"
    /\ PegCount(puzzle) = 3
    /\ PathLength = 2

====
